---- MODULE Spec2Model ----
(***************************************************************************)
(* Model of repoze.bfg.workflow.statemachine.StateMachine.                 *)
(*                                                                         *)
(* One StateMachine object (its transition list, ordered state list and    *)
(* state metadata) and the state attribute of the context objects it is    *)
(* used on.  Python's None is the string "None", a missing attribute is    *)
(* the string "_marker".  Guards and callbacks are opaque callables: a     *)
(* call of one is recorded in last.calls, and whether it raises is an      *)
(* input of the operation that invokes it.  `last` is the caller's view of *)
(* the last call: what was called with which arguments on which state      *)
(* attribute (pre), how the call ended (result) and which callables ran.   *)
(* `history` lists the state registrations made so far.  Calls run as one   *)
(* step each; `frames` holds execute calls that run statement by statement *)
(* on threads, which only the threaded specifications use.                 *)
(***************************************************************************)
EXTENDS Naturals, Sequences, FiniteSets

VARIABLES
    transitions,    \* self._transitions: sequence of transition records
    state_order,    \* self._state_order: sequence of state names
    state_data,     \* self._state_data: state name -> (key -> value)
    ctx,            \* context -> value of its state attribute, or _marker
    last,           \* the last call: operation, arguments, outcome, calls made
    history,        \* the add_state_info calls made so far, in order
    initializer,    \* self.initializer: a callable, or None
    frames          \* thread -> the execute call it is in, statement by statement

vars == <<transitions, state_order, state_data, ctx, last, history, initializer, frames>>

machine == <<transitions, state_order, state_data, history, initializer>>

----------------------------------------------------------------------------
(* Values *)

None == "None"

_marker == "_marker"

States == {"A", "B", "C"}

TransitionNames == {"n", None}

Contexts == {"c1"}

initial_state == "A"

Keys == {"title", "k"}

\* Bounds of the model.
MaxTransitions == 2
MaxGuards == 2
MaxHistory == 4

\* A dict is a function on the set of its keys.
EmptyDict == [x \in {} |-> None]

Dict(k, v) == [x \in {k} |-> v]

\* The keyword arguments state metadata is registered with.
KwSets ==
    {EmptyDict, Dict("title", "t1"), Dict("title", "t2"), Dict("k", "v1"),
     [x \in Keys |-> IF x = "title" THEN "t2" ELSE "v2"]}

\* What a guard or a callback does when it is called.
Behaviours == {"returns", "raises"}

\* The guards tuples tried: the empty one (the default) and those of MaxGuards
\* guards, none raising or exactly one, at any position (a guard behind a
\* raising one never gets to behave).
GuardTuples ==
    {[i \in 1..n |-> IF i = k THEN "raises" ELSE "returns"] :
        n \in {0, MaxGuards}, k \in 0..MaxGuards}

AllReturn(guards) == \A i \in 1..Len(guards) : guards[i] = "returns"

\* How the callables of one call behave: the guards, and the callback (cb). A
\* callback behind a raising guard never gets to behave either.
Scenarios ==
    {sc \in [guards : GuardTuples, cb : Behaviours] :
        AllReturn(sc.guards) \/ sc.cb = "returns"}

\* The record of a call: pre is the state attribute the call found, cb how the
\* callback behaves in it.
Last(op, args, cb, pre, o) ==
    [op |-> op, args |-> args, cb |-> cb, pre |-> pre,
     result |-> o.result, calls |-> o.calls]

Done == [result |-> "ok", calls |-> <<>>]

\* The record of a query: value is what it returned.
Returned(op, args, pre, value) ==
    [op |-> op, args |-> args, cb |-> None, pre |-> pre,
     result |-> "ok", calls |-> <<>>, value |-> value]

----------------------------------------------------------------------------
(* dict.update, getattr, `in` on a list *)

\* A faulty dict.update: the new keywords replace the dict.
Update_Replace(d, kw) == kw

Update(d, kw) ==
    [k \in (DOMAIN d) \cup (DOMAIN kw) |-> IF k \in DOMAIN kw THEN kw[k] ELSE d[k]]

\* A faulty getattr: the default is not used.
GetAttr_NoDefault(context, default) == ctx[context]

GetAttr(context, default) == IF ctx[context] = _marker THEN default ELSE ctx[context]

InSeq(x, s) == \E i \in 1..Len(s) : s[i] = x

----------------------------------------------------------------------------
(* __init__ *)

NoThreads == [t \in {} |-> None]

\* StateMachine(state_attr, transitions=given, initializer=init), and contexts
\* that have no state attribute yet.
Constructed(given, init, contexts) ==
    /\ transitions = given
    /\ state_order = <<>>
    /\ state_data = EmptyDict
    /\ ctx = [c \in contexts |-> _marker]
    /\ last = Last("__init__", EmptyDict, None, None, Done)
    /\ history = <<>>
    /\ initializer = init
    /\ frames = NoThreads

\* The constructor's defaults: no transitions, no initializer.
Init == Constructed(<<>>, None, Contexts)

----------------------------------------------------------------------------
(* add_state_info *)

\* The ordered state list after add_state_info(state_name, ...).
OrderAfter(order, state_name) ==
    IF ~InSeq(state_name, order) THEN Append(order, state_name) ELSE order

\* The metadata after add_state_info(state_name, **kw).
DataAfter(data, state_name, kw) ==
    LET d == IF state_name \notin DOMAIN data
             THEN [s \in (DOMAIN data) \cup {state_name} |->
                      IF s = state_name THEN EmptyDict ELSE data[s]]
             ELSE data
    IN  [d EXCEPT ![state_name] = Update(d[state_name], kw)]

Registration(state_name, kw) == [state_name |-> state_name, kw |-> kw]

add_state_info(state_name, kw) ==
    /\ state_order' = OrderAfter(state_order, state_name)
    /\ state_data' = DataAfter(state_data, state_name, kw)
    /\ history' = Append(history, Registration(state_name, kw))
    /\ last' = Last("add_state_info", Registration(state_name, kw), None, None, Done)
    /\ UNCHANGED <<transitions, ctx, initializer, frames>>

----------------------------------------------------------------------------
(* add_transition *)

Transition(transition_name, from_state, to_state, callback) ==
    [name |-> transition_name, from_state |-> from_state,
     to_state |-> to_state, callback |-> callback]

\* A faulty add_transition: to_state is registered before from_state.
add_transition_ToFirst(transition_name, from_state, to_state, callback) ==
    /\ state_order' = OrderAfter(OrderAfter(state_order, to_state), from_state)
    /\ state_data' = DataAfter(DataAfter(state_data, to_state, EmptyDict),
                               from_state, EmptyDict)
    /\ history' = history \o <<Registration(to_state, EmptyDict),
                               Registration(from_state, EmptyDict)>>
    /\ transitions' = Append(transitions,
                             Transition(transition_name, from_state, to_state, callback))
    /\ last' = Last("add_transition",
                    Transition(transition_name, from_state, to_state, callback),
                    None, None, Done)
    /\ UNCHANGED <<ctx, initializer, frames>>

add_transition(transition_name, from_state, to_state, callback) ==
    /\ state_order' = OrderAfter(OrderAfter(state_order, from_state), to_state)
    /\ state_data' = DataAfter(DataAfter(state_data, from_state, EmptyDict),
                               to_state, EmptyDict)
    /\ history' = history \o <<Registration(from_state, EmptyDict),
                               Registration(to_state, EmptyDict)>>
    /\ transitions' = Append(transitions,
                             Transition(transition_name, from_state, to_state, callback))
    /\ last' = Last("add_transition",
                    Transition(transition_name, from_state, to_state, callback),
                    None, None, Done)
    /\ UNCHANGED <<ctx, initializer, frames>>

----------------------------------------------------------------------------
(* execute *)

\* A recorded call of a guard (which = its position in the guards tuple) or of
\* a callback (which = the callback), with the context and the transition
\* record (by its index in the transition list) it was passed.
Call(kind, which, context, index) ==
    [kind |-> kind, which |-> which, context |-> context, transition |-> index]

\* A faulty lookup: the name is not compared.
RECURSIVE Lookup_AnyName(_, _)
Lookup_AnyName(i, si) ==
    IF i > Len(transitions) THEN 0
    ELSE IF transitions[i].from_state = si[1] THEN i
    ELSE Lookup_AnyName(i + 1, si)

\* A faulty lookup: no break, the last matching record is found.
RECURSIVE Lookup_LastMatch(_, _)
Lookup_LastMatch(i, si) ==
    IF i > Len(transitions) THEN 0
    ELSE LET later == Lookup_LastMatch(i + 1, si)
         IN  IF later # 0 THEN later
             ELSE IF <<transitions[i].from_state, transitions[i].name>> = si THEN i
             ELSE 0

\* The lookup of the class docstring: when no record has (state, name), the
\* records are searched for (state, None).
RECURSIVE Lookup_NoneFallback(_, _)
Lookup_NoneFallback(i, si) ==
    IF i > Len(transitions)
    THEN IF si[2] # None THEN Lookup_NoneFallback(1, <<si[1], None>>) ELSE 0
    ELSE IF <<transitions[i].from_state, transitions[i].name>> = si THEN i
    ELSE Lookup_NoneFallback(i + 1, si)

\* The lookup loop: the index of the first record, from index i on, whose
\* (from_state, name) equals si; 0 (found is None) when the loop runs out.
RECURSIVE Lookup(_, _)
Lookup(i, si) ==
    IF i > Len(transitions) THEN 0
    ELSE IF <<transitions[i].from_state, transitions[i].name>> = si THEN i
    ELSE Lookup(i + 1, si)

\* A faulty guard loop: every guard is called, and the error of one that raised
\* is raised after the loop.
RECURSIVE GuardLoop_RunsAll(_, _, _, _, _)
GuardLoop_RunsAll(i, guards, context, found, calls) ==
    IF i > Len(guards)
    THEN [calls |-> calls, raised |-> ~AllReturn(guards)]
    ELSE GuardLoop_RunsAll(i + 1, guards, context, found,
                           Append(calls, Call("guard", i, context, found)))

\* The guard loop from position i on: the calls made, and whether one raised.
RECURSIVE GuardLoop(_, _, _, _, _)
GuardLoop(i, guards, context, found, calls) ==
    IF i > Len(guards) THEN [calls |-> calls, raised |-> FALSE]
    ELSE LET called == Append(calls, Call("guard", i, context, found))
         IN  IF guards[i] = "raises" THEN [calls |-> called, raised |-> TRUE]
             ELSE GuardLoop(i + 1, guards, context, found, called)

\* A faulty end of execute: the state attribute is never written.
CallbackAndWrite_NoWrite(context, found, cb, calls) ==
    LET callback == transitions[found].callback
    IN  IF callback # None
        THEN LET called == Append(calls, Call("callback", callback, context, found))
             IN  IF cb = "raises"
                 THEN [result |-> "CallbackError", calls |-> called,
                       attr |-> ctx[context]]
                 ELSE [result |-> "ok", calls |-> called, attr |-> ctx[context]]
        ELSE [result |-> "ok", calls |-> calls, attr |-> ctx[context]]

\* A faulty end of execute: the state attribute is written before the callback
\* is called.
CallbackAndWrite_WriteFirst(context, found, cb, calls) ==
    LET callback == transitions[found].callback
        to_state == transitions[found].to_state
    IN  IF callback # None
        THEN LET called == Append(calls, Call("callback", callback, context, found))
             IN  IF cb = "raises"
                 THEN [result |-> "CallbackError", calls |-> called, attr |-> to_state]
                 ELSE [result |-> "ok", calls |-> called, attr |-> to_state]
        ELSE [result |-> "ok", calls |-> calls, attr |-> to_state]

\* The callback and the state write, after the calls the guards made: how
\* execute ends, the calls it made, the state attribute afterwards.
CallbackAndWrite(context, found, cb, calls) ==
    LET callback == transitions[found].callback
        to_state == transitions[found].to_state
    IN  IF callback # None
        THEN LET called == Append(calls, Call("callback", callback, context, found))
             IN  IF cb = "raises"
                 THEN [result |-> "CallbackError", calls |-> called,
                       attr |-> ctx[context]]
                 ELSE [result |-> "ok", calls |-> called, attr |-> to_state]
        ELSE [result |-> "ok", calls |-> calls, attr |-> to_state]

\* execute(context, transition_name, guards), the callback behaving as cb.
ExecuteOutcome(context, transition_name, guards, cb) ==
    LET state == GetAttr(context, initial_state)
        si    == <<state, transition_name>>
        found == Lookup(1, si)
    IN  IF found = 0
        THEN [result |-> "StateMachineError", calls |-> <<>>, attr |-> ctx[context]]
        ELSE LET g == IF guards # <<>>
                      THEN GuardLoop(1, guards, context, found, <<>>)
                      ELSE [calls |-> <<>>, raised |-> FALSE]
             IN  IF g.raised
                 THEN [result |-> "GuardError", calls |-> g.calls,
                       attr |-> ctx[context]]
                 ELSE CallbackAndWrite(context, found, cb, g.calls)

execute(context, transition_name, guards, cb) ==
    LET o == ExecuteOutcome(context, transition_name, guards, cb)
    IN  /\ ctx' = [ctx EXCEPT ![context] = o.attr]
        /\ last' = Last("execute",
                        [context |-> context, transition_name |-> transition_name,
                         guards |-> guards],
                        cb, ctx[context], o)
        /\ UNCHANGED <<machine, frames>>

----------------------------------------------------------------------------
(* execute, statement by statement.  A thread's call runs from the read of *)
(* the state attribute to the lookup in one step (the table is not being   *)
(* changed while calls run), then one step per guard called, one for the   *)
(* callback and one for the write.  The frame of a call keeps its locals   *)
(* (state, found), the calls it made with the attribute value each callee  *)
(* found (seen), and, once it is over, how it ended.                       *)

Threads == {"t1", "t2"}

\* The calls that are over.
Finished == {t \in DOMAIN frames : frames[t].pc = "done"}

\* The frames with the frame of thread t set to f.
Put(t, f) == [x \in (DOMAIN frames) \cup {t} |-> IF x = t THEN f ELSE frames[x]]

StepCall(kind, which, f) ==
    [kind |-> kind, which |-> which, context |-> f.context,
     transition |-> f.found, seen |-> ctx[f.context]]

\* The frame of a call that ended with result, as the n-th call to end.
Ended(f, result) ==
    [f EXCEPT !.pc = "done", !.result = result, !.seq = Cardinality(Finished) + 1]

\* What the caller of the call of frame f sees when it ended with result.
LastOf(f, result) ==
    Last("execute",
         [context |-> f.context, transition_name |-> f.transition_name,
          guards |-> f.guards],
         f.cb, f.pre, [result |-> result, calls |-> f.calls])

\* A faulty read: the attribute is not read, the state is initial_state.
execute_begin_IgnoresAttr(t, context, transition_name, guards, cb) ==
    LET state == initial_state
        found == Lookup(1, <<state, transition_name>>)
        f == [context |-> context, transition_name |-> transition_name,
              guards |-> guards, cb |-> cb, pre |-> ctx[context],
              after |-> Finished, state |-> state, found |-> found,
              i |-> 1, calls |-> <<>>, result |-> None, seq |-> 0,
              pc |-> IF guards # <<>> THEN "guards" ELSE "callback"]
    IN  /\ t \notin DOMAIN frames
        /\ IF found = 0
           THEN /\ frames' = Put(t, Ended(f, "StateMachineError"))
                /\ last' = LastOf(f, "StateMachineError")
           ELSE /\ frames' = Put(t, f)
                /\ UNCHANGED last
        /\ UNCHANGED <<machine, ctx>>

\* The call, the read of the state and the lookup; no record found ends it.
execute_begin(t, context, transition_name, guards, cb) ==
    LET state == GetAttr(context, initial_state)
        found == Lookup(1, <<state, transition_name>>)
        f == [context |-> context, transition_name |-> transition_name,
              guards |-> guards, cb |-> cb, pre |-> ctx[context],
              after |-> Finished, state |-> state, found |-> found,
              i |-> 1, calls |-> <<>>, result |-> None, seq |-> 0,
              pc |-> IF guards # <<>> THEN "guards" ELSE "callback"]
    IN  /\ t \notin DOMAIN frames
        /\ IF found = 0
           THEN /\ frames' = Put(t, Ended(f, "StateMachineError"))
                /\ last' = LastOf(f, "StateMachineError")
           ELSE /\ frames' = Put(t, f)
                /\ UNCHANGED last
        /\ UNCHANGED <<machine, ctx>>

\* The next guard is called; one that raises ends the call.
execute_guard(t) ==
    /\ t \in DOMAIN frames
    /\ frames[t].pc = "guards"
    /\ LET f == frames[t]
           g == [f EXCEPT !.calls = Append(f.calls, StepCall("guard", f.i, f))]
       IN  IF f.guards[f.i] = "raises"
           THEN /\ frames' = Put(t, Ended(g, "GuardError"))
                /\ last' = LastOf(g, "GuardError")
           ELSE /\ frames' = Put(t, [g EXCEPT !.i = f.i + 1,
                                      !.pc = IF f.i = Len(f.guards)
                                             THEN "callback" ELSE "guards"])
                /\ UNCHANGED last
    /\ UNCHANGED <<machine, ctx>>

\* A faulty callback step: to_state is written before the callback is called.
execute_callback_AfterWrite(t) ==
    /\ t \in DOMAIN frames
    /\ frames[t].pc = "callback"
    /\ LET f == frames[t]
           callback == transitions[f.found].callback
           written == [ctx EXCEPT ![f.context] = transitions[f.found].to_state]
           g == [f EXCEPT !.calls = Append(f.calls,
                    [kind |-> "callback", which |-> callback, context |-> f.context,
                     transition |-> f.found, seen |-> written[f.context]])]
       IN  /\ ctx' = written
           /\ IF callback # None
              THEN IF f.cb = "raises"
                   THEN /\ frames' = Put(t, Ended(g, "CallbackError"))
                        /\ last' = LastOf(g, "CallbackError")
                   ELSE /\ frames' = Put(t, [g EXCEPT !.pc = "write"])
                        /\ UNCHANGED last
              ELSE /\ frames' = Put(t, [f EXCEPT !.pc = "write"])
                   /\ UNCHANGED last
    /\ UNCHANGED machine

\* The callback of the record found, if it has one, is called; when it raises
\* the call ends.
execute_callback(t) ==
    /\ t \in DOMAIN frames
    /\ frames[t].pc = "callback"
    /\ LET f == frames[t]
           callback == transitions[f.found].callback
           g == [f EXCEPT !.calls = Append(f.calls, StepCall("callback", callback, f))]
       IN  IF callback # None
           THEN IF f.cb = "raises"
                THEN /\ frames' = Put(t, Ended(g, "CallbackError"))
                     /\ last' = LastOf(g, "CallbackError")
                ELSE /\ frames' = Put(t, [g EXCEPT !.pc = "write"])
                     /\ UNCHANGED last
           ELSE /\ frames' = Put(t, [f EXCEPT !.pc = "write"])
                /\ UNCHANGED last
    /\ UNCHANGED <<machine, ctx>>

\* to_state is written and the call returns.
execute_write(t) ==
    /\ t \in DOMAIN frames
    /\ frames[t].pc = "write"
    /\ LET f == frames[t]
       IN  /\ ctx' = [ctx EXCEPT ![f.context] = transitions[f.found].to_state]
           /\ frames' = Put(t, Ended(f, "ok"))
           /\ last' = LastOf(f, "ok")
    /\ UNCHANGED machine

\* The thread is free for its next call.
execute_return(t) ==
    /\ t \in Finished
    /\ frames' = [x \in (DOMAIN frames) \ {t} |-> frames[x]]
    /\ UNCHANGED <<machine, ctx, last>>

----------------------------------------------------------------------------
(* state_of, state_info *)

state_of(context) == GetAttr(context, initial_state)

\* A faulty filter: from_state is not compared.
RECURSIVE Reaching_AnyFrom(_, _, _)
Reaching_AnyFrom(i, from_state, state_name) ==
    IF i > Len(transitions) THEN <<>>
    ELSE LET rest == Reaching_AnyFrom(i + 1, from_state, state_name)
         IN  IF transitions[i].to_state = state_name
             THEN <<transitions[i]>> \o rest
             ELSE rest

\* The transitions list of one descriptor: the records, from index i on, going
\* from from_state to state_name.
RECURSIVE Reaching(_, _, _)
Reaching(i, from_state, state_name) ==
    IF i > Len(transitions) THEN <<>>
    ELSE LET rest == Reaching(i + 1, from_state, state_name)
         IN  IF transitions[i].from_state = from_state
                /\ transitions[i].to_state = state_name
             THEN <<transitions[i]>> \o rest
             ELSE rest

\* A faulty descriptor: current is told from from_state.
Descriptor_CurrentFrom(state_name, from_state, context_state) ==
    LET data == state_data[state_name]
    IN  [name |-> state_name,
         transitions |-> Reaching(1, from_state, state_name),
         data |-> data,
         initial |-> (state_name = initial_state),
         current |-> (state_name = from_state),
         title |-> IF "title" \in DOMAIN data THEN data["title"] ELSE state_name]

Descriptor(state_name, from_state, context_state) ==
    LET data == state_data[state_name]
    IN  [name |-> state_name,
         transitions |-> Reaching(1, from_state, state_name),
         data |-> data,
         initial |-> (state_name = initial_state),
         current |-> (state_name = context_state),
         title |-> IF "title" \in DOMAIN data THEN data["title"] ELSE state_name]

state_info(context, from_state) ==
    LET context_state == state_of(context)
        from == IF from_state = None THEN context_state ELSE from_state
    IN  [i \in 1..Len(state_order) |-> Descriptor(state_order[i], from, context_state)]

----------------------------------------------------------------------------
(* transitions *)

\* A faulty transitions: the records are returned latest first.
transitions_of_Reversed(context, from_state) ==
    LET from == IF from_state = None THEN state_of(context) ELSE from_state
        matching == SelectSeq(transitions, LAMBDA t : from = t.from_state)
    IN  [i \in 1..Len(matching) |-> matching[Len(matching) + 1 - i]]

\* What transitions(context, from_state) returns.
transitions_of(context, from_state) ==
    LET from == IF from_state = None THEN state_of(context) ELSE from_state
    IN  SelectSeq(transitions, LAMBDA t : from = t.from_state)

----------------------------------------------------------------------------
(* The queries as calls: the caller gets the value, nothing is written.    *)

\* A faulty state_of: the default is stored on the context.
query_state_of_Stores(context) ==
    /\ last' = Returned("state_of", [context |-> context], ctx[context],
                        state_of(context))
    /\ ctx' = [ctx EXCEPT ![context] = state_of(context)]
    /\ UNCHANGED <<machine, frames>>

query_state_of(context) ==
    /\ last' = Returned("state_of", [context |-> context], ctx[context],
                        state_of(context))
    /\ UNCHANGED <<machine, ctx, frames>>

query_transitions(context, from_state) ==
    /\ last' = Returned("transitions",
                        [context |-> context, from_state |-> from_state],
                        ctx[context], transitions_of(context, from_state))
    /\ UNCHANGED <<machine, ctx, frames>>

query_state_info(context, from_state) ==
    /\ last' = Returned("state_info",
                        [context |-> context, from_state |-> from_state],
                        ctx[context], state_info(context, from_state))
    /\ UNCHANGED <<machine, ctx, frames>>

----------------------------------------------------------------------------
(* initialize *)

\* The call of the initializer: seen is the state attribute it finds.
InitializerCall(context, seen) ==
    [kind |-> "initializer", which |-> initializer, context |-> context,
     seen |-> seen]

\* A faulty initialize: the initializer runs before the attribute is written.
InitializeOutcome_CallFirst(context, ib) ==
    LET written == [ctx EXCEPT ![context] = initial_state]
    IN  IF initializer # None
        THEN IF ib = "raises"
             THEN [result |-> "InitializerError",
                   calls |-> <<InitializerCall(context, ctx[context])>>,
                   attr |-> ctx[context]]
             ELSE [result |-> "ok",
                   calls |-> <<InitializerCall(context, ctx[context])>>,
                   attr |-> written[context]]
        ELSE [result |-> "ok", calls |-> <<>>, attr |-> written[context]]

\* initialize(context) where the initializer, if called, behaves as ib says.
InitializeOutcome(context, ib) ==
    LET written == [ctx EXCEPT ![context] = initial_state]
    IN  IF initializer # None
        THEN [result |-> IF ib = "raises" THEN "InitializerError" ELSE "ok",
              calls |-> <<InitializerCall(context, written[context])>>,
              attr |-> written[context]]
        ELSE [result |-> "ok", calls |-> <<>>, attr |-> written[context]]

initialize(context, ib) ==
    LET o == InitializeOutcome(context, ib)
    IN  /\ ctx' = [ctx EXCEPT ![context] = o.attr]
        /\ last' = Last("initialize", [context |-> context], ib, ctx[context], o)
        /\ UNCHANGED <<machine, frames>>

----------------------------------------------------------------------------
(* transition_to_state *)

\* A faulty loop: when no descriptor has a transition, to_state is written
\* before the error is raised.
RECURSIVE ToStateLoop_WritesTarget(_, _, _, _, _, _)
ToStateLoop_WritesTarget(i, infos, context, to_state, guards, cb) ==
    IF i > Len(infos)
    THEN [result |-> "StateMachineError", calls |-> <<>>, attr |-> to_state]
    ELSE IF infos[i].name = to_state /\ infos[i].transitions # <<>>
         THEN ExecuteOutcome(context, infos[i].transitions[1].name, guards, cb)
         ELSE ToStateLoop_WritesTarget(i + 1, infos, context, to_state, guards, cb)

\* The loop over the descriptors from position i on.
RECURSIVE ToStateLoop(_, _, _, _, _, _)
ToStateLoop(i, infos, context, to_state, guards, cb) ==
    IF i > Len(infos)
    THEN [result |-> "StateMachineError", calls |-> <<>>, attr |-> ctx[context]]
    ELSE IF infos[i].name = to_state /\ infos[i].transitions # <<>>
         THEN ExecuteOutcome(context, infos[i].transitions[1].name, guards, cb)
         ELSE ToStateLoop(i + 1, infos, context, to_state, guards, cb)

\* A faulty transition_to_state: the same-state test reads the raw attribute
\* and not state_of(context).
ToStateOutcome_RawAttr(context, to_state, guards, skip_same, cb) ==
    IF ctx[context] = to_state /\ skip_same
    THEN [result |-> "ok", calls |-> <<>>, attr |-> ctx[context]]
    ELSE ToStateLoop(1, state_info(context, None), context, to_state, guards, cb)

ToStateOutcome(context, to_state, guards, skip_same, cb) ==
    LET from_state == state_of(context)
    IN  IF from_state = to_state /\ skip_same
        THEN [result |-> "ok", calls |-> <<>>, attr |-> ctx[context]]
        ELSE ToStateLoop(1, state_info(context, None), context, to_state, guards, cb)

transition_to_state(context, to_state, guards, skip_same, cb) ==
    LET o == ToStateOutcome(context, to_state, guards, skip_same, cb)
    IN  /\ ctx' = [ctx EXCEPT ![context] = o.attr]
        /\ last' = Last("transition_to_state",
                        [context |-> context, to_state |-> to_state,
                         guards |-> guards, skip_same |-> skip_same],
                        cb, ctx[context], o)
        /\ UNCHANGED <<machine, frames>>

----------------------------------------------------------------------------
(* The transitions a workflow registers, in any order and number: two that  *)
(* share (from_state, name) and differ in to_state, two that share the edge *)
(* A -> B, a chain A -> B -> C, a self loop, records named None and records *)
(* without callback.                                                        *)

Registered ==
    {Transition("n", "A", "B", "cb"),
     Transition("n", "A", "C", "cb"),
     Transition(None, "A", "B", None),
     Transition("n", "B", "C", None),
     Transition(None, "B", "B", "cb"),
     Transition("n", "C", "A", "cb")}

----------------------------------------------------------------------------
(* The machine in use: transitions are registered and fired on a context.  *)

AddTransition ==
    /\ Len(transitions) < MaxTransitions
    /\ \E t \in Registered :
            add_transition(t.name, t.from_state, t.to_state, t.callback)

Execute ==
    \E context \in Contexts, transition_name \in TransitionNames, sc \in Scenarios :
        execute(context, transition_name, sc.guards, sc.cb)

TransitionToState ==
    \E context \in Contexts, to_state \in States, skip_same \in BOOLEAN,
       sc \in Scenarios :
        transition_to_state(context, to_state, sc.guards, skip_same, sc.cb)

Next == AddTransition \/ Execute \/ TransitionToState

Spec == Init /\ [][Next]_vars

----------------------------------------------------------------------------
(* The table under construction: states and transitions are registered.    *)

RegisterState ==
    /\ Len(history) < MaxHistory
    /\ \E state_name \in States, kw \in KwSets : add_state_info(state_name, kw)

RegisterTransition ==
    /\ Len(history) + 2 <= MaxHistory
    /\ Len(transitions) < MaxTransitions
    /\ \E t \in Registered :
            add_transition(t.name, t.from_state, t.to_state, t.callback)

TableNext == RegisterState \/ RegisterTransition

TableSpec == Init /\ [][TableNext]_vars

----------------------------------------------------------------------------
(* The life of a context: it is initialized, and transitions are fired on  *)
(* it, on a machine built with or without an initializer.  The calls pass  *)
(* no guard or one that raises.                                            *)

Initializers == {None, "initializer"}

LifeScenarios ==
    {[guards |-> <<>>, cb |-> "returns"],
     [guards |-> <<>>, cb |-> "raises"],
     [guards |-> <<"raises">>, cb |-> "returns"]}

LifeInit == \E init \in Initializers : Constructed(<<>>, init, Contexts)

Initialize ==
    \E context \in Contexts, ib \in Behaviours : initialize(context, ib)

LifeExecute ==
    \E context \in Contexts, transition_name \in TransitionNames,
       sc \in LifeScenarios :
        execute(context, transition_name, sc.guards, sc.cb)

LifeToState ==
    \E context \in Contexts, to_state \in States, skip_same \in BOOLEAN,
       sc \in LifeScenarios :
        transition_to_state(context, to_state, sc.guards, skip_same, sc.cb)

LifeNext == AddTransition \/ Initialize \/ LifeExecute \/ LifeToState

LifeSpec == LifeInit /\ [][LifeNext]_vars

----------------------------------------------------------------------------
(* The machine built from a list: the constructor is given the transition  *)
(* list, which it stores as it is, and more transitions may be registered. *)

GivenLists == {<<>>} \cup {<<t>> : t \in Registered}

CtorInit == \E given \in GivenLists : Constructed(given, None, Contexts)

CtorNext == AddTransition \/ LifeExecute \/ LifeToState

CtorSpec == CtorInit /\ [][CtorNext]_vars

----------------------------------------------------------------------------
(* One thread: calls of execute, one after another, each run statement by  *)
(* statement, on a table that grows between the calls.                     *)

StepThreads == {"t1"}

StepAddTransition ==
    /\ DOMAIN frames = {}
    /\ AddTransition

StepBegin ==
    \E t \in StepThreads, context \in Contexts,
       transition_name \in TransitionNames, sc \in Scenarios :
        execute_begin(t, context, transition_name, sc.guards, sc.cb)

StepGuard == \E t \in StepThreads : execute_guard(t)

StepCallback == \E t \in StepThreads : execute_callback(t)

StepWrite == \E t \in StepThreads : execute_write(t)

StepReturn == \E t \in StepThreads : execute_return(t)

StepNext ==
    \/ StepAddTransition
    \/ StepBegin
    \/ StepGuard
    \/ StepCallback
    \/ StepWrite
    \/ StepReturn

StepSpec == Init /\ [][StepNext]_vars

----------------------------------------------------------------------------
(* Two threads: once the table is built each thread calls execute once, on *)
(* one of two contexts, and the statements of the two calls interleave.    *)

RaceContexts == {"c1", "c2"}

RaceRegistered ==
    {Transition("n", "A", "B", "cb"),
     Transition(None, "A", "C", "cb"),
     Transition(None, "B", "C", None)}

RaceInit == Constructed(<<>>, None, RaceContexts)

RaceAddTransition ==
    /\ DOMAIN frames = {}
    /\ Len(transitions) < MaxTransitions
    /\ \E t \in RaceRegistered :
            add_transition(t.name, t.from_state, t.to_state, t.callback)

RaceBegin ==
    \E t \in Threads, context \in RaceContexts,
       transition_name \in TransitionNames, sc \in LifeScenarios :
        execute_begin(t, context, transition_name, sc.guards, sc.cb)

RaceGuard == \E t \in Threads : execute_guard(t)

RaceCallback == \E t \in Threads : execute_callback(t)

RaceWrite == \E t \in Threads : execute_write(t)

RaceNext ==
    \/ RaceAddTransition
    \/ RaceBegin
    \/ RaceGuard
    \/ RaceCallback
    \/ RaceWrite

RaceSpec == RaceInit /\ [][RaceNext]_vars

----------------------------------------------------------------------------
(* The machine under introspection: states are declared, transitions are   *)
(* registered, a context is initialized and moved, and the queries are     *)
(* asked in every state reached.                                           *)

MaxDeclared == 1

Declarations ==
    {Registration("C", EmptyDict), Registration("B", Dict("title", "t1"))}

QueryRegistered ==
    {t \in Registered : t.from_state # "C" /\ t.from_state # t.to_state}

FromStates == States \cup {None}

Declare ==
    /\ Len(history) < MaxDeclared
    /\ \E r \in Declarations : add_state_info(r.state_name, r.kw)

QueryAddTransition ==
    /\ Len(transitions) < MaxTransitions
    /\ \E t \in QueryRegistered :
            add_transition(t.name, t.from_state, t.to_state, t.callback)

StateOf == \E context \in Contexts : query_state_of(context)

Transitions ==
    \E context \in Contexts, from_state \in FromStates :
        query_transitions(context, from_state)

StateInfo ==
    \E context \in Contexts, from_state \in FromStates :
        query_state_info(context, from_state)

QueryNext ==
    \/ Declare
    \/ QueryAddTransition
    \/ Initialize
    \/ LifeExecute
    \/ StateOf
    \/ Transitions
    \/ StateInfo

QuerySpec == Init /\ [][QueryNext]_vars

----------------------------------------------------------------------------
(* What the properties below speak about.  A call that fails leaves the    *)
(* table alone and so does one that succeeds, so the table a call saw is   *)
(* the table of the state it led to.                                       *)

IsExecute == last.op = "execute"

IsToState == last.op = "transition_to_state"

\* The current state the last call found on its context.
StateBefore == IF last.pre = _marker THEN initial_state ELSE last.pre

\* The state attribute of the last call's context, now.
AttrNow == ctx[last.args.context]

\* The current state of the last call's context, now.
StateNow == IF AttrNow = _marker THEN initial_state ELSE AttrNow

\* The records registered for (state, name), by index.
Matches(state, name) ==
    {i \in 1..Len(transitions) :
        transitions[i].from_state = state /\ transitions[i].name = name}

\* The records going from one state directly to another, by index.
Direct(from_state, to_state) ==
    {i \in 1..Len(transitions) :
        transitions[i].from_state = from_state /\ transitions[i].to_state = to_state}

Earliest(S) == CHOOSE i \in S : \A j \in S : i <= j

\* The position of the raising guard of a guards tuple, 0 if none raises.
Raising(guards) ==
    IF AllReturn(guards) THEN 0
    ELSE Earliest({i \in 1..Len(guards) : guards[i] = "raises"})

\* The callables a call invoked, in order: <<"guard", position>>, <<"callback", cb>>.
Invoked == [i \in 1..Len(last.calls) |-> <<last.calls[i].kind, last.calls[i].which>>]

GuardsUpTo(k) == [i \in 1..k |-> <<"guard", i>>]

CallbackCalls == {i \in 1..Len(last.calls) : last.calls[i].kind = "callback"}

\* transition_to_state was not skipped as a transition to the same state.
NotSkipped == ~(StateBefore = last.args.to_state /\ last.args.skip_same)

----------------------------------------------------------------------------
(* C1 *)

\* C1, as stated: for every record T = (A, N, B) of the transition list and a
\* context in state A, execute(context, N, guards) with guards that return and a
\* callback that does not fail succeeds and leaves the context in state B.
C1_EveryRecordFires ==
    (IsExecute /\ AllReturn(last.args.guards) /\ last.cb = "returns")
    => \A i \in Matches(StateBefore, last.args.transition_name) :
           last.result = "ok" /\ AttrNow = transitions[i].to_state

\* C1, amended: the same for every record T that is the earliest registered one
\* with its (from_state, name); a later record with the same pair is shadowed.
C1_EarliestRecordFires ==
    (IsExecute /\ AllReturn(last.args.guards) /\ last.cb = "returns")
    => \A i \in Matches(StateBefore, last.args.transition_name) :
           (\A j \in Matches(StateBefore, last.args.transition_name) : i <= j)
           => last.result = "ok" /\ AttrNow = transitions[i].to_state

\* C1: a record fired with guards and a callback, and the state changed.
C1_Witness ==
    /\ IsExecute /\ last.result = "ok"
    /\ last.args.guards # <<>> /\ AllReturn(last.args.guards)
    /\ CallbackCalls # {}
    /\ last.pre = "C" /\ AttrNow = "A"

----------------------------------------------------------------------------
(* C2 *)

----------------------------------------------------------------------------
(* C3 *)

\* C3: when the callback of the matched transition fails, the error propagates
\* and the state attribute is what it was before the call.
C3_CallbackFailureKeepsState ==
    (/\ IsExecute
     /\ Matches(StateBefore, last.args.transition_name) # {}
     /\ AllReturn(last.args.guards)
     /\ last.cb = "raises"
     /\ transitions[Earliest(Matches(StateBefore, last.args.transition_name))].callback # None)
    => /\ last.result = "CallbackError"
       /\ AttrNow = last.pre

\* C3: a callback failed on a transition that would have changed the state.
C3_Witness ==
    /\ IsExecute /\ last.result = "CallbackError"
    /\ CallbackCalls # {}
    /\ last.pre = "C" /\ AttrNow = "C"
    /\ transitions[last.calls[Len(last.calls)].transition].to_state = "A"

----------------------------------------------------------------------------
(* C4 *)

\* The last call got as far as the guards: an execute that found a record, or a
\* transition_to_state that was not skipped and found a record going directly
\* to the target.
ReachedGuards ==
    \/ IsExecute /\ Matches(StateBefore, last.args.transition_name) # {}
    \/ IsToState /\ NotSkipped /\ Direct(StateBefore, last.args.to_state) # {}

\* C4: guards are invoked in the order supplied; when the k-th guard fails no
\* later guard and no callback is invoked, the error propagates and the state
\* attribute is unchanged, in execute and through transition_to_state alike.
C4_GuardsInOrderAndVeto ==
    ReachedGuards
    => LET guards == last.args.guards
           k      == Raising(guards)
       IN  IF k # 0
           THEN /\ last.result = "GuardError"
                /\ Invoked = GuardsUpTo(k)
                /\ AttrNow = last.pre
           ELSE /\ Len(Invoked) >= Len(guards)
                /\ SubSeq(Invoked, 1, Len(guards)) = GuardsUpTo(Len(guards))
                /\ \A i \in CallbackCalls : i = Len(guards) + 1

\* C4: through transition_to_state, the first of the guards vetoed a transition
\* that has a callback.
C4_Witness ==
    /\ IsToState /\ last.result = "GuardError"
    /\ Len(last.args.guards) = MaxGuards /\ Raising(last.args.guards) = 1
    /\ Len(last.calls) = 1
    /\ transitions[last.calls[1].transition].callback # None
    /\ transitions[last.calls[1].transition].to_state # StateBefore

----------------------------------------------------------------------------
(* C5 *)

\* C5: transition_to_state to the state the context is in, with skip_same,
\* succeeds, invokes nothing and leaves the state attribute unchanged, whether
\* or not a transition from that state to itself is registered.
C5_SkipSameDoesNothing ==
    (IsToState /\ last.args.skip_same /\ StateBefore = last.args.to_state)
    => /\ last.result = "ok"
       /\ last.calls = <<>>
       /\ AttrNow = last.pre

\* C5: the call was skipped although a self loop with a callback is registered
\* and guards were supplied, one of which would have raised.
C5_Witness ==
    /\ IsToState /\ last.args.skip_same /\ StateBefore = last.args.to_state
    /\ \E i \in Direct(StateBefore, StateBefore) : transitions[i].callback # None
    /\ Raising(last.args.guards) # 0
    /\ last.result = "ok"

----------------------------------------------------------------------------
(* C6 *)

\* C6: transition_to_state fails with StateMachineError whenever no record goes
\* from the current state directly to the target (and the call is not skipped);
\* it chains nothing, invokes no callback and leaves the state attribute
\* unchanged.
C6_NoDirectTransitionFails ==
    (IsToState /\ NotSkipped /\ Direct(StateBefore, last.args.to_state) = {})
    => /\ last.result = "StateMachineError"
       /\ last.calls = <<>>
       /\ AttrNow = last.pre

\* C6: the target is two transitions away and no record leads to it directly.
C6_Witness ==
    /\ IsToState /\ NotSkipped /\ Direct(StateBefore, last.args.to_state) = {}
    /\ StateBefore # last.args.to_state
    /\ \E s \in States :
          /\ Direct(StateBefore, s) # {}
          /\ Direct(s, last.args.to_state) # {}
    /\ last.result = "StateMachineError"

----------------------------------------------------------------------------
(* C7 *)

\* C7: whenever transition_to_state(context, S, ...) returns without error, the
\* current state of the context is S.
C7_ToStateLandsOnTarget ==
    (IsToState /\ last.result = "ok") => StateNow = last.args.to_state

----------------------------------------------------------------------------
(* C10 *)

\* add_transition put its record at the end of the list and left the rest.
AppendedOne ==
    last'.op = "add_transition"
    => transitions' = transitions \o <<last'.args>>

\* The earliest record registered for (current state, name) is the one fired:
\* only its callback is invoked, and its to_state is what a successful call
\* writes.
EarliestWins ==
    (IsExecute /\ Matches(StateBefore, last.args.transition_name) # {})
    => LET first == Earliest(Matches(StateBefore, last.args.transition_name))
       IN  /\ \A i \in 1..Len(last.calls) : last.calls[i].transition = first
           /\ Cardinality(CallbackCalls) <= 1
           /\ \A i \in CallbackCalls :
                 last.calls[i].which = transitions[first].callback
           /\ (AllReturn(last.args.guards) /\ transitions[first].callback # None)
              => CallbackCalls # {}
           /\ last.result = "ok" => AttrNow = transitions[first].to_state
           /\ last.result # "ok" => AttrNow = last.pre

\* C10: add_transition appends one record at the end of the transition list
\* without deduplicating, and execute fires the earliest registered record for
\* (current state, name): with several, only the first one's callback is
\* invoked and the first one's to_state is written.
C10_AppendAndEarliestWins == [][AppendedOne /\ EarliestWins']_vars

\* C10: two records share (from_state, name) and differ in to_state; the first
\* was fired.
C10_Witness ==
    /\ IsExecute /\ last.result = "ok"
    /\ Cardinality(Matches(StateBefore, last.args.transition_name)) = 2
    /\ transitions[2].to_state # transitions[1].to_state
    /\ CallbackCalls # {}
    /\ AttrNow = transitions[1].to_state

----------------------------------------------------------------------------
(* C8 *)

RegisteredNames == {history[i].state_name : i \in 1..Len(history)}

\* The position of the first registration of a state.
FirstAt(s) == Earliest({i \in 1..Len(history) : history[i].state_name = s})

\* The metadata registered for a state, later values overriding earlier ones.
Merged(s) ==
    LET regs == {i \in 1..Len(history) : history[i].state_name = s}
        has(k) == {i \in regs : k \in DOMAIN history[i].kw}
        keys == UNION {DOMAIN history[i].kw : i \in regs}
        latest(k) == CHOOSE i \in has(k) : \A j \in has(k) : j <= i
    IN  [k \in keys |-> history[latest(k)].kw[k]]

\* C8: after any sequence of add_state_info and add_transition calls the ordered
\* state list holds each registered state name exactly once, in order of first
\* registration, and the metadata of each state is the merge of the metadata of
\* all its registrations, later values overriding earlier ones per key.
C8_StatesOnceInOrderMetadataMerged ==
    /\ {state_order[i] : i \in 1..Len(state_order)} = RegisteredNames
    /\ \A i, j \in 1..Len(state_order) :
          i < j => /\ state_order[i] # state_order[j]
                   /\ FirstAt(state_order[i]) < FirstAt(state_order[j])
    /\ DOMAIN state_data = RegisteredNames
    /\ \A s \in RegisteredNames : state_data[s] = Merged(s)

\* C8: a state was registered again, after another one, with a key of its own
\* and a new value for a key it had.
C8_Witness ==
    /\ Len(history) = 3
    /\ history[1] = Registration("B", Dict("title", "t1"))
    /\ history[2].state_name = "A"
    /\ history[3] = Registration("B", [x \in Keys |-> IF x = "title" THEN "t2" ELSE "v2"])
    /\ state_order = <<"B", "A">>
    /\ state_data["B"]["title"] = "t2" /\ state_data["B"]["k"] = "v2"

----------------------------------------------------------------------------
(* C9 *)

\* Every endpoint of every record is in the ordered state list and has metadata.
EndpointsRegistered ==
    \A i \in 1..Len(transitions) :
        \A s \in {transitions[i].from_state, transitions[i].to_state} :
            InSeq(s, state_order) /\ s \in DOMAIN state_data

\* add_transition registered from_state, then to_state, each if it was new, and
\* left the metadata of the states registered before untouched.
EndpointsInOrder ==
    last'.op = "add_transition"
    => LET f == last'.args.from_state
           t == last'.args.to_state
           new_f == IF InSeq(f, state_order) THEN <<>> ELSE <<f>>
           new_t == IF InSeq(t, state_order) \/ t = f THEN <<>> ELSE <<t>>
       IN  /\ state_order' = state_order \o new_f \o new_t
           /\ \A s \in DOMAIN state_data : state_data'[s] = state_data[s]

\* C9: on a machine created with no initial transitions, every from_state and
\* to_state of every record is in the ordered state list and has a metadata map;
\* add_transition registers from_state before to_state and leaves the metadata
\* of already registered states unchanged.
C9_EndpointsRegistered == [][EndpointsRegistered' /\ EndpointsInOrder]_vars

\* C9: a transition between two new states was added after a state with
\* metadata had been registered.
C9_Witness ==
    /\ last.op = "add_transition"
    /\ Len(state_order) = 3
    /\ state_order[2] = last.args.from_state
    /\ state_order[3] = last.args.to_state
    /\ DOMAIN state_data[state_order[1]] # {}

----------------------------------------------------------------------------
(* C11 *)

\* What execute(context, name, guards) has to report on a context whose
\* current state is `state`, told from the table.
ExpectedResult(state, args, cb) ==
    LET S == Matches(state, args.transition_name)
    IN  IF S = {} THEN "StateMachineError"
        ELSE IF ~AllReturn(args.guards) THEN "GuardError"
        ELSE IF transitions[Earliest(S)].callback # None /\ cb = "raises"
             THEN "CallbackError"
             ELSE "ok"

\* The current state it has to leave behind.
ExpectedState(state, args, cb) ==
    IF ExpectedResult(state, args, cb) = "ok"
    THEN transitions[Earliest(Matches(state, args.transition_name))].to_state
    ELSE state

StateOfDefaults ==
    last.op = "state_of"
    => /\ last.result = "ok"
       /\ last.value = IF last.pre = _marker THEN initial_state ELSE last.pre

ExecuteResolvesAlike ==
    IsExecute
    => /\ last.result = ExpectedResult(StateBefore, last.args, last.cb)
       /\ StateNow = ExpectedState(StateBefore, last.args, last.cb)

\* C11: state_of(context) returns the state attribute if it is set and
\* initial_state otherwise, and does not raise; what execute reports and the
\* state it leaves depend on the attribute only through that resolved state, so
\* an unset attribute and one equal to initial_state are treated alike.
C11_UnsetIsInitialState == StateOfDefaults /\ ExecuteResolvesAlike

\* C11: state_of was asked on a context whose attribute was never set, after a
\* transition had been registered.
C11_Witness ==
    /\ last.op = "state_of"
    /\ last.pre = _marker
    /\ last.value = initial_state
    /\ transitions # <<>>

\* C11: execute moved a context whose attribute was never set out of
\* initial_state.
C11_WitnessExecute ==
    /\ IsExecute
    /\ last.pre = _marker
    /\ last.result = "ok"
    /\ AttrNow \notin {_marker, initial_state}

----------------------------------------------------------------------------
(* C12 *)

\* The records whose from_state is `from`, by index.
From(from) == {i \in 1..Len(transitions) : transitions[i].from_state = from}

\* The k-th smallest member of a set of indexes.
Kth(S, k) == CHOOSE i \in S : Cardinality({j \in S : j < i}) = k - 1

\* The from_state a query resolves its argument to.
ResolvedFrom == IF last.args.from_state = None THEN StateBefore ELSE last.args.from_state

\* C12: transitions(context, from_state) returns exactly the records whose
\* from_state is the given one, or the context's current state when none is
\* given, in registration order, each once.
C12_TransitionsFiltered ==
    last.op = "transitions"
    => /\ Len(last.value) = Cardinality(From(ResolvedFrom))
       /\ \A k \in 1..Len(last.value) :
            last.value[k] = transitions[Kth(From(ResolvedFrom), k)]

\* C12: transitions(context) was asked with no from_state on a context that
\* had been moved to B, and returned one of the two records registered.
C12_Witness ==
    /\ last.op = "transitions"
    /\ last.args.from_state = None
    /\ last.pre = "B"
    /\ Len(last.value) = 1
    /\ Len(transitions) = 2

----------------------------------------------------------------------------
(* C13 *)

\* The records of the transition list going from from_state to to_state, in
\* registration order.
Filtered(from_state, to_state) ==
    [k \in 1..Cardinality(Direct(from_state, to_state)) |->
        transitions[Kth(Direct(from_state, to_state), k)]]

\* C13: state_info(context, from_state) returns one descriptor per registered
\* state, in registration order; a descriptor's transitions are the records
\* going from the resolved from_state to its state, in registration order; its
\* current flag tells whether its state is the context's current state, also
\* when a from_state is given; its initial flag tells whether its state is
\* initial_state.
C13_StateInfoDescriptors ==
    last.op = "state_info"
    => /\ Len(last.value) = Len(state_order)
       /\ \A i \in 1..Len(last.value) :
            /\ last.value[i].name = state_order[i]
            /\ last.value[i].transitions = Filtered(ResolvedFrom, state_order[i])
            /\ last.value[i].current = (state_order[i] = StateBefore)
            /\ last.value[i].initial = (state_order[i] = initial_state)

\* C13: state_info was asked with a from_state that is not the context's
\* current state: the descriptor of the current state has no transitions and
\* another descriptor has.
C13_Witness ==
    /\ last.op = "state_info"
    /\ last.args.from_state \notin {None, StateBefore}
    /\ \E i \in 1..Len(last.value) :
            last.value[i].current /\ last.value[i].transitions = <<>>
    /\ \E i \in 1..Len(last.value) :
            ~last.value[i].current /\ last.value[i].transitions # <<>>

----------------------------------------------------------------------------
(* C14 *)

IsInitialize == last.op = "initialize"

\* C14: initialize(context) leaves the state attribute equal to initial_state
\* whatever it was and whatever the table holds, calls no guard and no
\* transition callback, and calls the initializer, if there is one, once, on
\* the context, after the attribute was written; without an initializer it
\* calls nothing.
C14_InitializeWritesThenCalls ==
    IsInitialize
    => /\ AttrNow = initial_state
       /\ \A i \in 1..Len(last.calls) : last.calls[i].kind = "initializer"
       /\ IF initializer # None
          THEN /\ Len(last.calls) = 1
               /\ last.calls[1].which = initializer
               /\ last.calls[1].context = last.args.context
               /\ last.calls[1].seen = initial_state
          ELSE last.calls = <<>>

\* C14: a context that had been moved out of initial_state was initialized on a
\* machine with an initializer.
C14_Witness ==
    /\ IsInitialize
    /\ last.pre \notin {_marker, initial_state}
    /\ initializer # None
    /\ Len(last.calls) = 1
    /\ AttrNow = initial_state

\* C14: a context that had been moved out of initial_state was initialized on a
\* machine without an initializer.
C14_WitnessPlain ==
    /\ IsInitialize
    /\ last.pre \notin {_marker, initial_state}
    /\ initializer = None
    /\ AttrNow = initial_state

----------------------------------------------------------------------------
(* C15 *)

Queries == {"state_of", "transitions", "state_info"}

\* C15: a step that is a call of state_of, transitions or state_info changes no
\* context's state attribute (an unset one stays unset), nor the transition
\* list, the ordered state list or the state metadata.
C15_QueriesWriteNothing ==
    [][last'.op \in Queries
       => UNCHANGED <<ctx, transitions, state_order, state_data>>]_vars

\* C15: a query was answered on a context whose attribute is not set, on a
\* machine with states and transitions.
C15_Witness ==
    /\ last.op \in Queries
    /\ AttrNow = _marker
    /\ last.pre = _marker
    /\ transitions # <<>>
    /\ Len(state_order) >= 2

----------------------------------------------------------------------------
(* C17 *)

\* The records registered from a state all have the name None, and there is
\* at least one.
OnlyNoneFrom(state) ==
    /\ From(state) # {}
    /\ \A i \in From(state) : transitions[i].name = None

\* C17: execute compares the transition name for equality and does not fall
\* back to a record named None: when the records from the current state are
\* all named None, execute with another name fails with StateMachineError,
\* calls nothing and leaves the state attribute as it was.
C17_NoFallbackToNone ==
    (IsExecute /\ last.args.transition_name # None /\ OnlyNoneFrom(StateBefore))
    => /\ last.result = "StateMachineError"
       /\ last.calls = <<>>
       /\ AttrNow = last.pre

\* C17: execute was called with the name "n" and passing guards in a state
\* whose only records are named None, one of them with a callback.
C17_Witness ==
    /\ IsExecute
    /\ last.args.transition_name # None
    /\ OnlyNoneFrom(StateBefore)
    /\ AllReturn(last.args.guards)
    /\ \E i \in From(StateBefore) : transitions[i].callback # None
    /\ last.result = "StateMachineError"

----------------------------------------------------------------------------
(* C20 *)

\* The current state of a context is initial_state or the to_state of a record.
StateInRange ==
    \A c \in Contexts :
        \/ state_of(c) = initial_state
        \/ \E i \in 1..Len(transitions) : transitions[i].to_state = state_of(c)

\* A step that changes the current state of a context is an initialize on it,
\* or an execute on it, called directly or by transition_to_state, that
\* completed.
ChangedByInitializeOrExecute ==
    \A c \in Contexts :
        state_of(c)' # state_of(c)
        => /\ last'.args.context = c
           /\ \/ last'.op = "initialize"
              \/ last'.op \in {"execute", "transition_to_state"} /\ last'.result = "ok"

\* C20: when guards, callbacks and the initializer do not write the state
\* attribute, then after any calls of initialize, execute and
\* transition_to_state, failed ones too, on a context that started without
\* the attribute, state_of(context) is initial_state or the to_state of a
\* record of the transition list, and it changes only in a step in which an
\* execute completed or initialize ran.
C20_StateInRangeAndChangedByCalls ==
    []StateInRange /\ [][ChangedByInitializeOrExecute]_vars

\* C20: a call failed on a context that an earlier call had moved out of
\* initial_state, and left it there.
C20_Witness ==
    /\ last.op \in {"execute", "transition_to_state"}
    /\ last.result # "ok"
    /\ AttrNow = last.pre
    /\ AttrNow \notin {_marker, initial_state}

----------------------------------------------------------------------------
(* C19 *)

\* C19: on any machine, one built from a transition list given to the
\* constructor included: when the list has a record from the context's current
\* state to another state S, transition_to_state(context, S) with guards that
\* return and a callback that does not fail does not raise StateMachineError.
C19_DirectRecordIsFound ==
    (/\ IsToState
     /\ AllReturn(last.args.guards)
     /\ last.cb = "returns"
     /\ last.args.to_state # StateBefore
     /\ Direct(StateBefore, last.args.to_state) # {})
    => last.result # "StateMachineError"

----------------------------------------------------------------------------
(* C16 *)

\* The calls of a frame are its guards, in order, and then at most the
\* callback, called after every guard returned.
GuardsThenCallback(f) ==
    \A j \in 1..Len(f.calls) :
        IF f.calls[j].kind = "guard"
        THEN f.calls[j].which = j /\ j <= Len(f.guards)
        ELSE /\ f.calls[j].kind = "callback"
             /\ j = Len(f.calls)
             /\ j = Len(f.guards) + 1
             /\ AllReturn(f.guards)

\* Every callee ran on the record the lookup had found and saw the state
\* attribute the call had found.
CalleesSeePreState(f) ==
    \A j \in 1..Len(f.calls) :
        /\ f.found # 0
        /\ f.calls[j].transition = f.found
        /\ f.calls[j].seen = f.pre

\* The attribute is as the call found it until the call has succeeded, and a
\* call that succeeded had every guard and the callback return.
WriteComesLast(f) ==
    /\ (f.pc # "done" \/ f.result # "ok") => ctx[f.context] = f.pre
    /\ (f.pc = "done" /\ f.result = "ok")
       => /\ ctx[f.context] = transitions[f.found].to_state
          /\ AllReturn(f.guards)
          /\ Len(SelectSeq(f.calls, LAMBDA c : c.kind = "guard")) = Len(f.guards)
          /\ transitions[f.found].callback # None
             => /\ f.cb = "returns"
                /\ f.calls # <<>>
                /\ f.calls[Len(f.calls)].kind = "callback"

ExecuteInOrder ==
    \A t \in DOMAIN frames :
        /\ GuardsThenCallback(frames[t])
        /\ CalleesSeePreState(frames[t])
        /\ WriteComesLast(frames[t])

\* The state attribute is written by the last statement of a call only.
WrittenByLastStatement ==
    ctx' # ctx
    => \E t \in DOMAIN frames : frames[t].pc = "write" /\ frames'[t].pc = "done"

\* C16: an execute, failed or not, goes lookup, guards, callback, write: the
\* callback is called only after every guard returned, the state attribute is
\* written only after the callback returned, and guards and callback find the
\* attribute as it was before the call.
C16_LookupGuardsCallbackWrite ==
    []ExecuteInOrder /\ [][WrittenByLastStatement]_vars

\* C16: an execute with guards, on a record with a callback, completed and
\* changed the state attribute.
C16_Witness ==
    \E t \in Finished :
        /\ frames[t].result = "ok"
        /\ frames[t].guards # <<>>
        /\ Len(frames[t].calls) = Len(frames[t].guards) + 1
        /\ frames[t].pre \notin {_marker, ctx[frames[t].context]}

----------------------------------------------------------------------------
(* C18 *)

\* The calls on a context that succeeded.
Writers(c) ==
    {t \in Finished : frames[t].context = c /\ frames[t].result = "ok"}

\* The one of them that ended last.
LastWriter(c) ==
    CHOOSE t \in Writers(c) : \A u \in Writers(c) : frames[u].seq <= frames[t].seq

\* The state attribute of a context is what the last call that succeeded on it
\* wrote, and nothing when none has: calls on other contexts do not count.
LastWriterWins ==
    \A c \in DOMAIN ctx :
        IF Writers(c) = {}
        THEN ctx[c] = _marker
        ELSE ctx[c] = transitions[frames[LastWriter(c)].found].to_state

\* A call begun after a call on the same context had succeeded in moving it to
\* a state with no transition out of it fails with StateMachineError.
SecondInSequenceFails ==
    \A t \in DOMAIN frames :
        \A u \in frames[t].after :
            (/\ frames[u].context = frames[t].context
             /\ frames[u].result = "ok"
             /\ From(transitions[frames[u].found].to_state) = {})
            => /\ frames[t].pc = "done"
               /\ frames[t].result = "StateMachineError"

\* A call that is the only one on its context ends as it would with no other
\* thread around.
AloneOnContext ==
    \A t \in Finished :
        (\A u \in DOMAIN frames : u # t => frames[u].context # frames[t].context)
        => frames[t].result = ExpectedResult(initial_state, frames[t], frames[t].cb)

\* C18: execute is not atomic on a context.  With T1 = (A -> B), T2 = (A -> C)
\* and nothing out of B or C, two calls interleaved on a context in state A can
\* both read A, both run their callback and both succeed (the witness), and the
\* state is then the one written last; one after the other, the second call
\* fails with StateMachineError; calls on different contexts do not affect
\* each other's state.
C18_RaceOnOneContext == LastWriterWins /\ SecondInSequenceFails /\ AloneOnContext

\* C18: both threads fired a transition out of A on the same context, T1 to B
\* and T2 to C, neither call having begun after the other ended; both found
\* state A, both ran their callback, both succeeded.
C18_Witness ==
    /\ Finished = Threads
    /\ From("B") = {} /\ From("C") = {}
    /\ \A t \in Threads :
            /\ frames[t].context = "c1"
            /\ frames[t].state = "A"
            /\ frames[t].result = "ok"
            /\ frames[t].after = {}
            /\ \E j \in 1..Len(frames[t].calls) : frames[t].calls[j].kind = "callback"
    /\ transitions[frames["t1"].found].to_state = "B"
    /\ transitions[frames["t2"].found].to_state = "C"
    /\ frames["t1"].seq < frames["t2"].seq
    /\ ctx["c1"] = "C"

====
